---- MODULE Spec2Model ----
(***************************************************************************)
(* Nightcaste: the fixed-timestep loop of engine.main, the system          *)
(* dispatcher (processors.SystemManager) and the event processors of       *)
(* processors.py, over the event bus they share.                           *)
(*                                                                         *)
(* Time is counted in units of 1/600 s, so that both SEC_PER_UPDATE        *)
(* (0.01 s = 6 units) and MIN_FRAME_TIME (1/60 s = 10 units) are whole.    *)
(***************************************************************************)
EXTENDS Integers, Sequences, FiniteSets, TLC

VARIABLES
    pc,             \* position of main() in its loop, or of the configuration
    lag,            \* engine.main: lag
    request_close,  \* engine.main: request_close
    since_prev,     \* the wall-clock time that has passed since prev_time was read
    status,         \* game.status
    gtime,          \* game.time
    queue,          \* EventManager: the pending events, oldest first
    listeners,      \* EventManager: event kind -> callbacks, in registration order
    view,           \* the window's active view
    systems,        \* SystemManager.systems
    config,         \* the 'systems' list of the configuration being applied
    calls,          \* history: the configure and register hooks called, in order
    updated,        \* history: the systems updated by the last SystemManager.update
    stages,         \* history: the stages run so far in the current Stepping round
    elapsed,        \* history: the sum of all time_delta so far
    rounds,         \* history: the number of completed Stepping rounds
    iter,           \* history: what happened in the current outer iteration
    delivered,      \* history: the active view of the last ViewChanged delivered
    world,          \* EntityManager: the components, the player, the current map;
                    \* and the movement system's spatial index
    before          \* history: the world before the last operation on it, and
                    \* that operation's inputs

vars == <<pc, lag, request_close, since_prev, status, gtime, queue, listeners,
          view, systems, config, calls, updated, stages, elapsed, rounds, iter,
          delivered, world, before>>

----------------------------------------------------------------------------
\* Bounds of the model

\* the longest 'systems' list of a configuration
MaxSystems == 3
\* the largest parameter value a configuration entry carries
MaxParam == 1
\* the longest time (in units) between main()'s first two clock readings
MaxStartup == 7
\* the longest time (in units) from one outer iteration's clock reading to the
\* end of its rendering (render_time)
MaxRenderTime == 13
\* the total elapsed time (in units) after which no further outer iteration is explored
MaxElapsed == 30
\* the most events one poll of the input device raises
MaxKeys == 1

\* engine.py: SEC_PER_UPDATE = 0.01 s, in units of 1/600 s
SEC_PER_UPDATE == 6
\* engine.py: MIN_FRAME_TIME = 1.0 / 60 s, in units of 1/600 s
MIN_FRAME_TIME == 10

\* WorldInitializer.start_time before configure() has set it
Unset == 0 - 1

----------------------------------------------------------------------------
\* Events and the event bus (events.EventManager)

EventKinds == {"MenuOpen", "ViewChanged", "KeyPressed", "WorldEnter",
               "EntityCreated", "MapChange", "MapChanged", "MoveAction",
               "EntityMoved", "UseEntityAction", "MapTransition"}

Keycodes == {"K_ENTER", "K_OTHER"}

\* EventManager.create + attribute assignment: an event of a kind with its payload
Event(kind, data) == [kind |-> kind, data |-> data]

\* a bound method of a system instance: equal iff same instance, same function
Callback(self, fn) == [self |-> self, fn |-> fn]

NoListeners == [k \in EventKinds |-> <<>>]

RECURSIVE RemoveFirst(_, _)
\* list.remove(x) guarded by membership: drops the first occurrence, if any
RemoveFirst(s, x) ==
    IF s = <<>> THEN <<>>
    ELSE IF Head(s) = x THEN Tail(s)
    ELSE <<Head(s)>> \o RemoveFirst(Tail(s), x)

\* EventManager.register_listener: appends, with no check for a duplicate
register_listener(ls, kind, cb) == [ls EXCEPT ![kind] = Append(@, cb)]

\* EventManager.remove_listener: removing an unregistered listener is a no-op
remove_listener(ls, kind, cb) == [ls EXCEPT ![kind] = RemoveFirst(@, cb)]

\* EventManager.throw: enqueue without invoking any callback
throw(s, event) == [s EXCEPT !.queue = Append(@, event)]

\* the number of times cb is registered for kind
Registrations(ls, kind, cb) ==
    Cardinality({i \in 1..Len(ls[kind]) : ls[kind][i] = cb})

----------------------------------------------------------------------------
\* The entities and their components (entities.EntityManager)

\* the entities a world holds besides its maps
MaxEntities == 2
Entities == 1..MaxEntities

Components == {"Input", "Position", "Movement", "Colliding", "Sprite", "Useable",
              "MapTransition"}

NoRect == [x |-> 0, y |-> 0, w |-> 0, h |-> 0]

\* None where an entity is expected
NoEntity == 0

\* the deepest level of a map
MaxLevel == 1

\* the maps the map manager can make: a map is known by its name and level
MapNames == {"world", "dungeon"}
Maps == MapNames \X (0..MaxLevel)

\* None where a map is expected
NoMap == <<"none", 0>>

\* the MapTransition component: the target map's name and level (Unset is None)
Transitions == [target_map : MapNames, target_level : {Unset} \cup (0..MaxLevel)]
NoTransition == [target_map |-> "none", target_level |-> Unset]

\* QTreeCollisionManager.__init__: an index that holds nothing
NewIndex == [members |-> {}, rect |-> [e \in Entities |-> NoRect]]

\* an EntityManager with no entity, and a collision manager not filled yet.
\* has: the components of each entity; dir: Input.direction as its unit
\* vector; pos: Position, in sub-pixels; speed: Movement.speed; rect:
\* Colliding, a rectangle of whole pixels; anim: the Sprite's animation;
\* index: the movement system's collision manager, the entities it holds and
\* the rectangle it holds for each; player, current_map: the shared
\* references; maps: the maps made so far; parent, children: the links of
\* the Map components; useEvent: Useable.useEvent; transition: MapTransition;
\* error: whether an exception has ended an operation
NewWorld ==
    [has |-> [e \in Entities |-> {}],
     dir |-> [e \in Entities |-> [x |-> 0, y |-> 0]],
     pos |-> [e \in Entities |-> [x |-> 0, y |-> 0]],
     speed |-> [e \in Entities |-> 0],
     rect |-> [e \in Entities |-> NoRect],
     anim |-> [e \in Entities |-> "none"],
     player |-> NoEntity,
     current_map |-> NoMap,
     maps |-> {},
     parent |-> [m \in Maps |-> NoMap],
     children |-> [m \in Maps |-> {}],
     useEvent |-> [e \in Entities |-> "None"],
     transition |-> [e \in Entities |-> NoTransition],
     index |-> NewIndex,
     error |-> FALSE]

\* no operation on the world yet
NoBefore == [op |-> "none"]

----------------------------------------------------------------------------
\* Rectangles and the collision manager (pygame.Rect, collision.py). A
\* position is a pair of floats, counted here in sub-pixels: SubPixel of them
\* make one pixel. A rectangle has whole-pixel coordinates.

\* the sub-pixels in a pixel
SubPixel == 2

Abs(v) == IF v >= 0 THEN v ELSE 0 - v

Sign(v) == IF v > 0 THEN 1 ELSE IF v < 0 THEN 0 - 1 ELSE 0

\* math.copysign(math.ceil(math.fabs(d)), d), of a displacement in sub-pixels:
\* the whole pixels of its magnitude rounded up, with its sign
RoundOutward(d) == Sign(d) * ((Abs(d) + SubPixel - 1) \div SubPixel)

\* the whole pixel of a coordinate in sub-pixels, as int() truncates it
Truncate(v) == Sign(v) * (Abs(v) \div SubPixel)

\* Rect.move: the rectangle displaced by whole pixels
MoveRect(r, dx, dy) == [r EXCEPT !.x = @ + dx, !.y = @ + dy]

\* Rect.colliderect: the rectangles overlap (touching edges do not)
CollideRect(a, b) ==
    /\ a.x < b.x + b.w
    /\ b.x < a.x + a.w
    /\ a.y < b.y + b.h
    /\ b.y < a.y + a.h

\* Colliding.set_position: the collider's rectangle is put at the position
set_position(r, pos) == [r EXCEPT !.x = Truncate(pos.x), !.y = Truncate(pos.y)]

\* QTreeCollisionManager.fill: the index is rebuilt from the given rectangles
fill(members, rects) == [members |-> members, rect |-> rects]

\* QTreeCollisionManager.move: the index takes the entity's new rectangle
move(index, entity, r) ==
    IF entity \in index.members THEN [index EXCEPT !.rect[entity] = r] ELSE index

RECURSIVE SortedSeq(_)
\* the elements of a set of entities, smallest first
SortedSeq(S) ==
    IF S = {} THEN <<>>
    ELSE LET m == CHOOSE x \in S : \A y \in S : x <= y
         IN  <<m>> \o SortedSeq(S \ {m})

\* QTreeCollisionManager.collide_rect: the entities of the index, other than
\* the asking one, whose rectangle overlaps the given one
collide_rect(index, entity, r) ==
    SortedSeq({o \in index.members \ {entity} : CollideRect(index.rect[o], r)})

----------------------------------------------------------------------------
\* processors.MovementSystem

\* Direction.get_dx, Direction.get_dy: the share of the distance along an axis
get_dx(direction, distance) == direction.x * distance
get_dy(direction, distance) == direction.y * distance

\* Position.move
MovePosition(pos, dx, dy) == [x |-> pos.x + dx, y |-> pos.y + dy]

\* the collider of an entity that has one displaced by the rounded delta
PredictedRect(w, entity, dx, dy) ==
    MoveRect(w.rect[entity], RoundOutward(dx), RoundOutward(dy))

\* lines 188-197: the entity has a collider, and its predicted rectangle
\* overlaps another entity of the index
Collides(w, entity, dx, dy) ==
    /\ "Colliding" \in w.has[entity]
    /\ Len(collide_rect(w.index, entity, PredictedRect(w, entity, dx, dy))) > 0

\* apply that commits the rounded displacement it has tested
apply_rounded(w, entity, direction, distance) ==
    LET dx == get_dx(direction, distance)
        dy == get_dy(direction, distance)
    IN  IF Collides(w, entity, dx, dy) THEN w
        ELSE LET p == MovePosition(w.pos[entity], RoundOutward(dx) * SubPixel,
                                   RoundOutward(dy) * SubPixel)
                 r == set_position(w.rect[entity], p)
             IN  IF "Colliding" \in w.has[entity]
                 THEN [w EXCEPT !.pos[entity] = p, !.rect[entity] = r,
                                !.index = move(@, entity, r)]
                 ELSE [w EXCEPT !.pos[entity] = p]

\* apply that moves the position also when the predicted rectangle collides
apply_unchecked(w, entity, direction, distance) ==
    LET p == MovePosition(w.pos[entity], get_dx(direction, distance),
                          get_dy(direction, distance))
    IN  [w EXCEPT !.pos[entity] = p]

\* MovementSystem.apply
apply(w, entity, direction, distance) ==
    LET dx == get_dx(direction, distance)
        dy == get_dy(direction, distance)
    IN  IF Collides(w, entity, dx, dy) THEN w
        ELSE LET p == MovePosition(w.pos[entity], dx, dy)
                 r == set_position(w.rect[entity], p)
             IN  IF "Colliding" \in w.has[entity]
                 THEN [w EXCEPT !.pos[entity] = p, !.rect[entity] = r,
                                !.index = move(@, entity, r)]
                 ELSE [w EXCEPT !.pos[entity] = p]

\* MovementSystem.update, the body of its loop for one entity with Input:
\* entity_positions[entity] and entity_movement[entity] raise KeyError and
\* sprite.animate raises AttributeError when the component is missing
update_entity(w, entity, delta) ==
    IF w.dir[entity] # [x |-> 0, y |-> 0]
    THEN IF ~({"Position", "Movement", "Sprite"} \subseteq w.has[entity])
         THEN [w EXCEPT !.error = TRUE]
         ELSE apply([w EXCEPT !.anim[entity] = "walk"], entity, w.dir[entity],
                    w.speed[entity] * delta)
    ELSE IF "Sprite" \notin w.has[entity]
         THEN [w EXCEPT !.error = TRUE]
         ELSE [w EXCEPT !.anim[entity] = "idle"]

RECURSIVE update_entities(_, _, _)
\* MovementSystem.update: the loop over the entities with Input, which an
\* exception ends
update_entities(w, es, delta) ==
    IF es = <<>> \/ w.error THEN w
    ELSE update_entities(update_entity(w, Head(es), delta), Tail(es), delta)

\* MovementSystem.update
movement_update(w, delta) ==
    update_entities(w, SortedSeq({e \in Entities : "Input" \in w.has[e]}), delta)

\* MovementSystem.on_map_changed: the index is filled with all colliders
on_map_changed(self, event, s) ==
    [s EXCEPT !.world.index =
        fill({e \in Entities : "Colliding" \in s.world.has[e]}, s.world.rect)]

----------------------------------------------------------------------------
\* The event processors (processors.py). A handler maps the part of the state
\* the processors share, s = [queue, listeners, view, gtime, status, updated,
\* world], to its successor.

Classes == {"GameInputProcessor", "MenuInputProcessor", "WorldInitializer",
            "GameTimeSystem", "ViewProcessor"}

InputClasses == {"GameInputProcessor", "MenuInputProcessor"}

\* EventProcessor.__init__ and the subclasses' __init__
NewSystem(class, id) ==
    [id |-> id, class |-> class, start_time |-> Unset, time_multi |-> 1]

\* EventProcessor._register
Register(self, s, kind, fn) ==
    [s EXCEPT !.listeners = register_listener(@, kind, Callback(self, fn))]

\* EventProcessor._unregister
Unregister(self, s, kind, fn) ==
    [s EXCEPT !.listeners = remove_listener(@, kind, Callback(self, fn))]

\* GameInputProcessor._is_responsible_for, MenuInputProcessor._is_responsible_for
is_responsible_for(self, view_name) ==
    IF self.class = "GameInputProcessor" THEN view_name = "game_view"
    ELSE view_name = "main_menu"

\* _map_key_to_action: the kind of the action event, "None" when there is none
map_key_to_action(self, keycode) ==
    IF self.class = "MenuInputProcessor" /\ keycode = "K_ENTER"
    THEN "WorldEnter" ELSE "None"

\* on_view_changed that never removes the key-press listener
on_view_changed_keep(self, event, s) ==
    IF is_responsible_for(self, event.data)
    THEN Register(self, s, "KeyPressed", "on_key_pressed")
    ELSE s

\* InputProcessor.on_view_changed
on_view_changed(self, event, s) ==
    IF is_responsible_for(self, event.data)
    THEN Register(self, s, "KeyPressed", "on_key_pressed")
    ELSE Unregister(self, s, "KeyPressed", "on_key_pressed")

\* InputProcessor.on_key_pressed
on_key_pressed(self, event, s) ==
    LET action == map_key_to_action(self, event.data)
    IN  IF action # "None" THEN throw(s, Event(action, "none")) ELSE s

\* the window's views, "none" while it shows no view yet
Views == {"none", "main_menu", "game_view"}

\* window.show(view_name): TRUE iff the active view actually changed
show(s, view_name) == s.view # view_name

\* on_map_change / on_menu_open that ignore what window.show returns
on_show_view_always(self, view_name, s) ==
    throw([s EXCEPT !.view = view_name], Event("ViewChanged", view_name))

\* ViewProcessor.on_map_change and ViewProcessor.on_menu_open, for their view
on_show_view(self, view_name, s) ==
    IF show(s, view_name)
    THEN throw([s EXCEPT !.view = view_name], Event("ViewChanged", view_name))
    ELSE s

\* ViewProcessor.on_map_change
on_map_change(self, event, s) == on_show_view(self, "game_view", s)

\* ViewProcessor.on_menu_open
on_menu_open(self, event, s) == on_show_view(self, "main_menu", s)

\* ViewProcessor.on_entity_moved: the window recomputes its viewport, which
\* is no state of the core
on_entity_moved(self, event, s) == s

\* the entity that new_from_blueprint('game.player') makes
PlayerEntity == 1

\* WorldInitializer.on_world_enter
on_world_enter(self, event, s) ==
    throw(throw([s EXCEPT !.gtime = self.start_time, !.world.player = PlayerEntity],
                Event("EntityCreated", "player")),
          Event("MapChange", [name |-> "world", level |-> 0]))

\* MapManager.get_map: the map of that name and level, made when it is asked
\* for the first time
get_map(name, level) == <<name, level>>

\* the entry point the map generator gives a map, in pixels
EntryPoint(m) == [x |-> IF m[1] = "world" THEN 1 ELSE 2, y |-> m[2]]

\* change_map that raises MapChanged and leaves the current map as it was
change_map_keep_current(self, new_map, s) ==
    throw(s, Event("MapChanged", "none"))

\* change_map that makes the new map the parent of the current one
change_map_links_reversed(self, new_map, s) ==
    LET cur == s.world.current_map
        linked == IF cur # NoMap
                  THEN [s EXCEPT !.world.parent[cur] = new_map,
                                 !.world.children[new_map] = @ \cup {cur}]
                  ELSE s
    IN  throw([linked EXCEPT !.world.current_map = new_map],
              Event("MapChanged", "none"))

\* MapChangeProcessor.change_map
change_map(self, new_map, s) ==
    LET cur == s.world.current_map
        linked == IF cur # NoMap
                  THEN [s EXCEPT !.world.parent[new_map] = cur,
                                 !.world.children[cur] = @ \cup {new_map}]
                  ELSE s
    IN  throw([linked EXCEPT !.world.current_map = new_map],
              Event("MapChanged", "none"))

\* MapChangeProcessor.on_map_change
MapChangeProcessor_on_map_change(self, event, s) ==
    LET level == IF event.data.level = Unset THEN 0 ELSE event.data.level
        new_map == get_map(event.data.name, level)
        made == [s EXCEPT !.world.maps = @ \cup {new_map}]
        entry_point == EntryPoint(new_map)
        move_action == Event("MoveAction",
                             [entity |-> s.world.player, dx |-> entry_point.x,
                              dy |-> entry_point.y, absolute |-> 1])
    IN  change_map(self, new_map, throw(made, move_action))

\* how far the trigger rectangle of a useable reaches from its position, and
\* its width and height, in pixels
TriggerReach == 16
TriggerSize == 32

\* the trigger rectangle of a useable: Rect(pos.x - 16, pos.y - 16, 32, 32)
TriggerRect(pos) ==
    [x |-> Truncate(pos.x - TriggerReach * SubPixel),
     y |-> Truncate(pos.y - TriggerReach * SubPixel),
     w |-> TriggerSize, h |-> TriggerSize]

\* the transient index of on_use_entity: all useables with their trigger rectangle
useable_index(w) ==
    LET useables == {e \in Entities : "Useable" \in w.has[e]}
    IN  [members |-> useables,
         rect |-> [e \in Entities |->
                     IF e \in useables THEN TriggerRect(w.pos[e]) ELSE NoRect]]

\* on_use_entity that asks the index without naming the asking entity, so
\* that the user's own trigger rectangle counts
on_use_entity_self(self, event, s) ==
    LET w == s.world
        collisions == collide_rect(useable_index(w), NoEntity, w.rect[event.data.user])
    IN  IF Len(collisions) > 0
        THEN throw(s, Event(w.useEvent[collisions[1]],
                            [usedEntity |-> collisions[1]]))
        ELSE s

\* UseEntityProcessor.on_use_entity: user.x, pos.x and the query with no
\* collider raise when the component is missing
on_use_entity(self, event, s) ==
    LET w == s.world
        user == event.data.user
        useables == {e \in Entities : "Useable" \in w.has[e]}
    IN  IF \/ ~({"Position", "Colliding"} \subseteq w.has[user])
           \/ \E e \in useables : "Position" \notin w.has[e]
        THEN [s EXCEPT !.world.error = TRUE]
        ELSE LET collisions == collide_rect(useable_index(w), user, w.rect[user])
             IN  IF Len(collisions) > 0
                 THEN throw(s, Event(w.useEvent[collisions[1]],
                                     [usedEntity |-> collisions[1]]))
                 ELSE s

\* on_map_transition that raises the MapTransition event again
on_map_transition_again(self, event, s) == throw(s, event)

\* TransitionProcessor.on_map_transition
on_map_transition(self, event, s) ==
    LET target == s.world.transition[event.data.usedEntity]
    IN  IF "MapTransition" \notin s.world.has[event.data.usedEntity]
        THEN [s EXCEPT !.world.error = TRUE]
        ELSE throw(s, Event("MapChange", [name |-> target.target_map,
                                          level |-> target.target_level]))

\* the register() hook of each class
register(self, s) ==
    CASE self.class \in InputClasses ->
            Register(self, s, "ViewChanged", "on_view_changed")
      [] self.class = "WorldInitializer" ->
            Register(self, s, "WorldEnter", "on_world_enter")
      [] self.class = "ViewProcessor" ->
            Register(self,
                     Register(self, Register(self, s, "MapChange", "on_map_change"),
                              "MenuOpen", "on_menu_open"),
                     "EntityMoved", "on_entity_moved")
      [] self.class = "MovementSystem" ->
            Register(self, s, "MapChanged", "on_map_changed")
      [] self.class = "MapChangeProcessor" ->
            Register(self, s, "MapChange", "on_map_change")
      [] self.class = "UseEntityProcessor" ->
            Register(self, s, "UseEntityAction", "on_use_entity")
      [] self.class = "TransitionProcessor" ->
            Register(self, s, "MapTransition", "on_map_transition")
      [] OTHER -> s

\* the configure() hook of each class
configure(self, param) ==
    CASE self.class = "WorldInitializer" -> [self EXCEPT !.start_time = param]
      [] self.class = "GameTimeSystem" -> [self EXCEPT !.time_multi = param]
      [] OTHER -> self

\* the call of a registered callback with an event
Invoke(cb, event, s) ==
    LET self == cb.self
    IN  CASE cb.fn = "on_view_changed" -> on_view_changed(self, event, s)
          [] cb.fn = "on_key_pressed" -> on_key_pressed(self, event, s)
          [] cb.fn = "on_map_change" ->
                IF self.class = "MapChangeProcessor"
                THEN MapChangeProcessor_on_map_change(self, event, s)
                ELSE on_map_change(self, event, s)
          [] cb.fn = "on_use_entity" -> on_use_entity(self, event, s)
          [] cb.fn = "on_map_transition" -> on_map_transition(self, event, s)
          [] cb.fn = "on_menu_open" -> on_menu_open(self, event, s)
          [] cb.fn = "on_world_enter" -> on_world_enter(self, event, s)
          [] cb.fn = "on_entity_moved" -> on_entity_moved(self, event, s)
          [] cb.fn = "on_map_changed" -> on_map_changed(self, event, s)

RECURSIVE Dispatch(_, _, _)
\* EventManager: call each callback registered for the event's kind, in order
Dispatch(cbs, event, s) ==
    IF cbs = <<>> THEN s
    ELSE Dispatch(Tail(cbs), event, Invoke(Head(cbs), event, s))

\* EventManager.process_events, one pass of its loop: take the oldest event
\* and deliver it to the callbacks registered for its kind
process_event(s) ==
    LET event == Head(s.queue)
    IN  Dispatch(s.listeners[event.kind], event, [s EXCEPT !.queue = Tail(@)])

----------------------------------------------------------------------------
\* The system dispatcher (processors.SystemManager). Its operations map
\* m = [systems, calls, s], s the state the processors share, to its successor.

\* an entry of the configuration's 'systems' list: the implementation, whether
\* the entry has a 'config' key, and the parameter that key carries
ConfigEntries ==
    {e \in [impl : Classes \ {"ViewProcessor"}, has_config : BOOLEAN,
            param : 0..MaxParam] : e.has_config \/ e.param = 0}

\* SystemManager.add_system
add_system(system, m) ==
    [m EXCEPT !.systems = Append(@, system),
              !.calls = Append(@, <<system.id, "register">>),
              !.s = register(system, @)]

\* add_system_by_config with the hooks in the wrong order: register, then configure
add_system_by_config_late(system_config, m) ==
    LET system == NewSystem(system_config.impl, Len(m.systems) + 1)
        added == add_system(system, m)
    IN  IF system_config.has_config
        THEN [added EXCEPT !.calls = Append(@, <<system.id, "configure">>)]
        ELSE added

\* SystemManager.add_system_by_config
add_system_by_config(system_config, m) ==
    LET system == NewSystem(system_config.impl, Len(m.systems) + 1)
    IN  IF system_config.has_config
        THEN add_system(configure(system, system_config.param),
                        [m EXCEPT !.calls = Append(@, <<system.id, "configure">>)])
        ELSE add_system(system, m)

RECURSIVE configure_systems(_, _)
\* SystemManager.configure: add the systems of the configuration, in order
configure_systems(cfg, m) ==
    IF cfg = <<>> THEN m
    ELSE configure_systems(Tail(cfg), add_system_by_config(Head(cfg), m))

\* the window manager's create(): it adds the view processor to the dispatcher
create_window(m) == add_system(NewSystem("ViewProcessor", Len(m.systems) + 1), m)

\* GameTimeSystem.update without its check of the game status
update_unpaused(self, s, delta_time) ==
    LET done == [s EXCEPT !.updated = Append(@, self.id)]
    IN  IF self.class = "GameTimeSystem"
        THEN [done EXCEPT !.gtime = @ + delta_time * self.time_multi]
        ELSE IF self.class = "MovementSystem"
        THEN [done EXCEPT !.world = movement_update(@, delta_time)]
        ELSE done

\* the update() hook of each class: GameTimeSystem.update,
\* MovementSystem.update, and the default EventProcessor.update of the others
update(self, s, delta_time) ==
    LET done == [s EXCEPT !.updated = Append(@, self.id)]
    IN  IF self.class = "GameTimeSystem" /\ s.status # "G_PAUSED"
        THEN [done EXCEPT !.gtime = @ + delta_time * self.time_multi]
        ELSE IF self.class = "MovementSystem"
        THEN [done EXCEPT !.world = movement_update(@, delta_time)]
        ELSE done

RECURSIVE update_systems_reversed(_, _, _)
\* SystemManager.update iterating the list from its end
update_systems_reversed(syss, s, delta_time) ==
    IF syss = <<>> THEN s
    ELSE update(Head(syss), update_systems_reversed(Tail(syss), s, delta_time),
                delta_time)

RECURSIVE update_systems(_, _, _)
\* SystemManager.update: update every system, in list order
update_systems(syss, s, delta_time) ==
    IF syss = <<>> THEN s
    ELSE update_systems(Tail(syss), update(Head(syss), s, delta_time), delta_time)

----------------------------------------------------------------------------
\* The state as records, and back

Shared == [queue |-> queue, listeners |-> listeners, view |-> view,
           gtime |-> gtime, status |-> status, updated |-> updated,
           world |-> world]

Manager == [systems |-> systems, calls |-> calls, s |-> Shared]

SetShared(s) ==
    /\ queue' = s.queue
    /\ listeners' = s.listeners
    /\ view' = s.view
    /\ gtime' = s.gtime
    /\ status' = s.status
    /\ updated' = s.updated
    /\ world' = s.world

SetManager(m) ==
    /\ systems' = m.systems
    /\ calls' = m.calls
    /\ SetShared(m.s)

\* a freshly constructed EventManager, window and game module
NewShared(st) ==
    [queue |-> <<>>, listeners |-> NoListeners, view |-> "none", gtime |-> 0,
     status |-> st, updated |-> <<>>, world |-> NewWorld]

\* SystemManager.__init__ before it configures
NewManager(st) == [systems |-> <<>>, calls |-> <<>>, s |-> NewShared(st)]

\* the history of an outer iteration: whether it has started, its completed
\* Stepping rounds, those of them that skipped the behaviour stage, its
\* Rendering passes, whether a poll reported a close request, and whether
\* the current round skipped the behaviour stage
NewIter == [started |-> FALSE, ticks |-> 0, paused_ticks |-> 0, renders |-> 0,
            close_seen |-> FALSE, paused |-> FALSE]

Statuses == {"G_RUNNING", "G_PAUSED"}

----------------------------------------------------------------------------
\* engine.main, lines 41-83: the fixed-timestep loop

\* the configuration main() loads: both input processors, the world
\* initializer and the game clock, each with its parameters
MainConfig(start_time, time_multi) ==
    << [impl |-> "MenuInputProcessor", has_config |-> FALSE, param |-> 0],
       [impl |-> "GameInputProcessor", has_config |-> FALSE, param |-> 0],
       [impl |-> "WorldInitializer", has_config |-> TRUE, param |-> start_time],
       [impl |-> "GameTimeSystem", has_config |-> TRUE, param |-> time_multi] >>

\* lines 27-51: the managers and the window are built, MenuOpen is thrown
Init ==
    \E st \in Statuses, start_time \in 0..MaxParam, time_multi \in 1..(MaxParam + 1) :
        LET cfg == MainConfig(start_time, time_multi)
            m == create_window(configure_systems(cfg, NewManager(st)))
        IN  /\ config = cfg
            /\ systems = m.systems
            /\ calls = m.calls
            /\ listeners = m.s.listeners
            /\ queue = <<Event("MenuOpen", "none")>>
            /\ view = "none"
            /\ gtime = 0
            /\ status = st
            /\ updated = <<>>
            /\ pc = "loop"
            /\ lag = 0
            /\ request_close = FALSE
            /\ since_prev \in 0..MaxStartup
            /\ stages = <<>>
            /\ elapsed = 0
            /\ rounds = 0
            /\ iter = NewIter
            /\ delivered = "none"
            /\ world = NewWorld
            /\ before = NoBefore

\* line 52, condition true, and lines 53-56: a new outer iteration reads the
\* clock and adds the time since the last reading to the lag
OuterLoop ==
    /\ pc = "loop"
    /\ ~request_close
    /\ elapsed + since_prev <= MaxElapsed
    /\ lag' = lag + since_prev
    /\ elapsed' = elapsed + since_prev
    /\ since_prev' = 0
    /\ iter' = [NewIter EXCEPT !.started = TRUE]
    /\ pc' = "while_lag"
    /\ UNCHANGED <<request_close, status, gtime, queue, listeners, view, systems,
                   config, calls, updated, stages, rounds,
                   delivered, world, before>>

\* line 52, condition false (the window is no longer active, or a close was
\* requested), and lines 82-83
Closed ==
    /\ pc = "loop"
    /\ pc' = "closed"
    /\ UNCHANGED <<lag, request_close, since_prev, status, gtime, queue, listeners,
                   view, systems, config, calls, updated, stages, elapsed, rounds,
                   iter,
                   delivered, world, before>>

\* the inner loop's condition with > for >=
WhileLag_Strict ==
    /\ pc = "while_lag"
    /\ IF lag > SEC_PER_UPDATE
       THEN pc' = "input" /\ stages' = <<>>
       ELSE pc' = "render" /\ stages' = stages
    /\ UNCHANGED <<lag, request_close, since_prev, status, gtime, queue, listeners,
                   view, systems, config, calls, updated, elapsed, rounds, iter,
                   delivered, world, before>>

\* line 58: the inner loop's condition
WhileLag ==
    /\ pc = "while_lag"
    /\ IF lag >= SEC_PER_UPDATE
       THEN pc' = "input" /\ stages' = <<>>
       ELSE pc' = "render" /\ stages' = stages
    /\ UNCHANGED <<lag, request_close, since_prev, status, gtime, queue, listeners,
                   view, systems, config, calls, updated, elapsed, rounds, iter,
                   delivered, world, before>>

RECURSIVE ThrowKeys(_, _)
\* the input controller raises a key-pressed event for each key it polled
ThrowKeys(keys, q) ==
    IF keys = <<>> THEN q
    ELSE ThrowKeys(Tail(keys), Append(q, Event("KeyPressed", Head(keys))))

\* the key sequences one poll can report
KeySeqs == UNION {[1..n -> Keycodes] : n \in 0..MaxKeys}

\* line 59: input_controller.update raises the polled keys' events, may change
\* the game status, and returns whether a close was requested
InputPoll ==
    /\ pc = "input"
    /\ \E keys \in KeySeqs, close \in BOOLEAN, st \in Statuses :
        /\ queue' = ThrowKeys(keys, queue)
        /\ request_close' = close
        /\ status' = st
        /\ iter' = [iter EXCEPT !.close_seen = @ \/ close]
    /\ stages' = Append(stages, "input")
    /\ pc' = "behaviour"
    /\ UNCHANGED <<lag, since_prev, gtime, listeners, view, systems, config, calls,
                   updated, elapsed, rounds,
                   delivered, world, before>>

\* the events a behaviour update can raise: none, or a map change
BehaviourEvents == {<<>>, <<Event("MapChange", [name |-> "dungeon", level |-> 1])>>}

\* the behaviour update without the process_events call of line 62
BehaviourUpdate_NoDrain ==
    /\ pc = "behaviour"
    /\ status # "G_PAUSED"
    /\ \E evs \in BehaviourEvents : queue' = queue \o evs
    /\ stages' = Append(stages, "behaviour")
    /\ iter' = [iter EXCEPT !.paused = FALSE]
    /\ pc' = "systems"
    /\ UNCHANGED <<lag, request_close, since_prev, status, gtime, listeners, view,
                   systems, config, calls, updated, elapsed, rounds, delivered,
                   world, before>>

\* lines 60-61, not paused: behaviour_manager.update; line 62 follows
BehaviourUpdate ==
    /\ pc = "behaviour"
    /\ status # "G_PAUSED"
    /\ \E evs \in BehaviourEvents : queue' = queue \o evs
    /\ stages' = Append(stages, "behaviour")
    /\ iter' = [iter EXCEPT !.paused = FALSE]
    /\ pc' = "drain_behaviour"
    /\ UNCHANGED <<lag, request_close, since_prev, status, gtime, listeners, view,
                   systems, config, calls, updated, elapsed, rounds,
                   delivered, world, before>>

\* a pause check that skips line 64 as well
BehaviourSkipped_SkipsSystems ==
    /\ pc = "behaviour"
    /\ status = "G_PAUSED"
    /\ iter' = [iter EXCEPT !.paused = TRUE]
    /\ pc' = "drain_systems"
    /\ UNCHANGED <<lag, request_close, since_prev, status, gtime, queue, listeners,
                   view, systems, config, calls, updated, stages, elapsed, rounds,
                   delivered, world, before>>

\* line 60, paused: lines 61-62 are skipped
BehaviourSkipped ==
    /\ pc = "behaviour"
    /\ status = "G_PAUSED"
    /\ iter' = [iter EXCEPT !.paused = TRUE]
    /\ pc' = "systems"
    /\ UNCHANGED <<lag, request_close, since_prev, status, gtime, queue, listeners,
                   view, systems, config, calls, updated, stages, elapsed, rounds,
                   delivered, world, before>>

Drains == {"drain_behaviour", "drain_systems", "drain_process"}

\* where main() continues after each of its three process_events calls
AfterDrain(at) ==
    CASE at = "drain_behaviour" -> "systems"
      [] at = "drain_systems" -> "process"
      [] at = "drain_process" -> "lag_sub"

\* lines 62, 65, 68: event_manager.process_events, one pass of its loop
ProcessEvents ==
    /\ pc \in Drains
    /\ queue # <<>>
    /\ SetShared(process_event(Shared))
    /\ delivered' = IF Head(queue).kind = "ViewChanged"
                    THEN Head(queue).data ELSE delivered
    /\ UNCHANGED <<pc, lag, request_close, since_prev, systems, config, calls,
                   stages, elapsed, rounds, iter, before>>

\* lines 62, 65, 68: process_events returns once the queue is empty
ProcessEventsDone ==
    /\ pc \in Drains
    /\ queue = <<>>
    /\ stages' = Append(stages, "drain")
    /\ pc' = AfterDrain(pc)
    /\ UNCHANGED <<lag, request_close, since_prev, status, gtime, queue, listeners,
                   view, systems, config, calls, updated, elapsed, rounds, iter,
                   delivered, world, before>>

\* line 64: system_manager.update
SystemsUpdate ==
    /\ pc = "systems"
    /\ SetShared(update_systems(systems, [Shared EXCEPT !.updated = <<>>],
                                SEC_PER_UPDATE))
    /\ stages' = Append(stages, "systems")
    /\ pc' = "drain_systems"
    /\ UNCHANGED <<lag, request_close, since_prev, systems, config, calls,
                   elapsed, rounds, iter,
                   delivered, before>>

\* line 67: process_manager.update
ProcessUpdate ==
    /\ pc = "process"
    /\ stages' = Append(stages, "process")
    /\ pc' = "drain_process"
    /\ UNCHANGED <<lag, request_close, since_prev, status, gtime, queue, listeners,
                   view, systems, config, calls, updated, elapsed, rounds, iter,
                   delivered, world, before>>

\* line 70 with window.render inside the inner loop
LagSub_RenderEachTick ==
    /\ pc = "lag_sub"
    /\ lag' = lag - SEC_PER_UPDATE
    /\ rounds' = rounds + 1
    /\ iter' = [iter EXCEPT !.ticks = @ + 1,
                            !.paused_ticks = IF iter.paused THEN @ + 1 ELSE @]
    /\ pc' = "render"
    /\ UNCHANGED <<request_close, since_prev, status, gtime, queue, listeners, view,
                   systems, config, calls, updated, stages, elapsed, delivered,
                   world, before>>

\* line 70: the round is over, one tick of lag is consumed
LagSub ==
    /\ pc = "lag_sub"
    /\ lag' = lag - SEC_PER_UPDATE
    /\ rounds' = rounds + 1
    /\ iter' = [iter EXCEPT !.ticks = @ + 1,
                            !.paused_ticks = IF iter.paused THEN @ + 1 ELSE @]
    /\ pc' = "while_lag"
    /\ UNCHANGED <<request_close, since_prev, status, gtime, queue, listeners, view,
                   systems, config, calls, updated, stages, elapsed,
                   delivered, world, before>>

\* line 72: window.render
Render ==
    /\ pc = "render"
    /\ iter' = [iter EXCEPT !.renders = @ + 1]
    /\ pc' = "sleep"
    /\ UNCHANGED <<lag, request_close, since_prev, status, gtime, queue, listeners,
                   view, systems, config, calls, updated, stages, elapsed, rounds,
                   delivered, world, before>>

Max(a, b) == IF a >= b THEN a ELSE b

\* lines 73-74: the iteration took render_time so far; sleep for the rest of the
\* frame budget
Sleep ==
    /\ pc = "sleep"
    /\ \E render_time \in 0..MaxRenderTime :
        since_prev' = render_time + Max(MIN_FRAME_TIME - render_time, 0)
    /\ pc' = "loop"
    /\ UNCHANGED <<lag, request_close, status, gtime, queue, listeners, view,
                   systems, config, calls, updated, stages, elapsed, rounds, iter,
                   delivered, world, before>>

Next ==
    \/ OuterLoop
    \/ Closed
    \/ WhileLag
    \/ InputPoll
    \/ BehaviourUpdate
    \/ BehaviourSkipped
    \/ ProcessEvents
    \/ ProcessEventsDone
    \/ SystemsUpdate
    \/ ProcessUpdate
    \/ LagSub
    \/ Render
    \/ Sleep

Spec == Init /\ [][Next]_vars

----------------------------------------------------------------------------
\* The claims about the loop

IsPrefix(a, b) == Len(a) <= Len(b) /\ \A i \in 1..Len(a) : a[i] = b[i]

Count(x, seq) == Cardinality({i \in 1..Len(seq) : seq[i] = x})

\* the stages of a round that runs the behaviour stage, and of one that skips it
RunningRound == <<"input", "behaviour", "drain", "systems", "drain", "process", "drain">>
PausedRound == <<"input", "systems", "drain", "process", "drain">>

\* C1 as claimed: every completed Stepping round has run input poll, behaviour
\* update, systems update, event drain, process-manager update, event drain,
\* in this order and nothing else.
C1_ClaimedStageOrder ==
    pc = "lag_sub" =>
        stages = <<"input", "behaviour", "systems", "drain", "process", "drain">>

\* C1 as amended: a Stepping round runs input poll, then - only when the game
\* is not paused - behaviour update and an event drain, then systems update,
\* event drain, process-manager update, event drain, and nothing in between.
C1_StageOrder ==
    /\ IsPrefix(stages, RunningRound) \/ IsPrefix(stages, PausedRound)
    /\ pc = "lag_sub" =>
        stages = IF iter.paused THEN PausedRound ELSE RunningRound

\* a round that ran the behaviour stage and its drain has completed
C1_Witness == pc = "lag_sub" /\ ~iter.paused /\ stages = RunningRound

\* C2: whenever the system dispatcher's update starts, paused or not, the
\* pending event queue is empty.
C2_QueueDrainedBeforeSystems == pc = "systems" => queue = <<>>

\* C3: when a poll of this outer iteration has reported a close request, the
\* request is still standing when the outer-loop condition is evaluated next,
\* so that the loop closes.
C3_CloseRequestKept == (pc = "loop" /\ iter.close_seen) => request_close

\* C4: no tick is skipped: rounds run x tick + lag is the elapsed time, the
\* lag is never negative, and a Rendering pass starts with less than one tick
\* of lag.
C4_NoTickSkipped ==
    /\ rounds * SEC_PER_UPDATE + lag = elapsed
    /\ lag >= 0
    /\ pc \in {"render", "sleep", "loop"} => lag < SEC_PER_UPDATE

\* after a stall, one outer iteration has caught up with two rounds or more
C4_Witness == pc = "render" /\ iter.ticks >= 2 /\ rounds >= 3 /\ lag > 0

\* the WorldEnter event is about to be delivered to a world initializer
WorldEnterDelivery ==
    /\ pc \in Drains
    /\ queue # <<>>
    /\ Head(queue).kind = "WorldEnter"
    /\ listeners["WorldEnter"] # <<>>

\* C5 as claimed: while the game is paused no step of the loop changes world
\* time, and none runs the behaviour update.
C5_ClaimedPausedTimeFrozen ==
    [][status = "G_PAUSED" =>
        /\ gtime' = gtime
        /\ stages' # Append(stages, "behaviour")]_vars

\* C5 as amended: while the game is paused no step of the loop runs the
\* behaviour update, and world time changes only where a WorldEnter event is
\* delivered to the world initializer, which resets it to its start time;
\* the systems update adds nothing to it.
C5_PausedTimeFrozen ==
    [][status = "G_PAUSED" =>
        /\ stages' # Append(stages, "behaviour")
        /\ gtime' # gtime =>
            /\ WorldEnterDelivery
            /\ gtime' = listeners["WorldEnter"][1].self.start_time]_vars

\* game time has accrued, and then a round has run paused, game clock included
C5_Witness ==
    /\ pc = "lag_sub"
    /\ iter.paused
    /\ status = "G_PAUSED"
    /\ gtime > 0
    /\ \E i \in 1..Len(updated) : systems[updated[i]].class = "GameTimeSystem"

\* C6: a round that runs paused polls the input device exactly once and runs
\* the dispatcher's update exactly once, over every system; an outer iteration
\* that ran a paused round has rendered once when it ends.
C6_PausedPollsAndRenders ==
    /\ (pc = "lag_sub" /\ iter.paused) =>
        /\ Count("input", stages) = 1
        /\ Count("systems", stages) = 1
        /\ Len(updated) = Len(systems)
    /\ (pc = "loop" /\ iter.paused_ticks > 0) => iter.renders = 1

\* an outer iteration with two paused rounds has ended
C6_Witness == pc = "loop" /\ iter.paused_ticks >= 2 /\ status = "G_PAUSED"

\* C7: an outer iteration renders exactly once, after its last Stepping round:
\* nothing is rendered before the lag is below one tick, and the iteration
\* ends with one Rendering pass, also when it ran no round.
C7_OneRenderPerIteration ==
    /\ pc \in {"while_lag", "input", "behaviour", "systems", "process", "lag_sub",
               "render"} \cup Drains => iter.renders = 0
    /\ pc = "render" => lag < SEC_PER_UPDATE
    /\ pc = "sleep" => iter.renders = 1
    /\ (pc = "loop" /\ iter.started) => iter.renders = 1

\* an outer iteration has rendered once after two rounds or more
C7_Witness == pc = "sleep" /\ iter.ticks >= 2 /\ iter.renders = 1

\* the ids of the systems, in list order
SystemIds == [i \in 1..Len(systems) |-> systems[i].id]

\* C11: a dispatcher update has updated every system of the list exactly
\* once, in the order the systems were added, and every completed Stepping
\* round has run the dispatcher update exactly once.
C11_UpdateEverySystemInOrder ==
    /\ pc \in {"drain_systems", "process", "drain_process", "lag_sub"} =>
        updated = SystemIds
    /\ updated = <<>> \/ updated = SystemIds
    /\ pc = "lag_sub" => Count("systems", stages) = 1

\* the dispatcher update of a second round has just run over all five systems
C11_Witness ==
    /\ pc = "drain_systems"
    /\ rounds >= 1
    /\ Len(updated) = 5
    /\ updated = SystemIds

----------------------------------------------------------------------------
\* The event bus under any sequence of external events: the processors of
\* main()'s configuration are registered, then MenuOpen, MapChange and
\* KeyPressed events are thrown and delivered in any interleaving

\* the longest queue an external event is added to
MaxQueue == 3

ExternalEvents ==
    {Event("MenuOpen", "none"), Event("MapChange", [name |-> "dungeon", level |-> 1])}
        \cup {Event("KeyPressed", k) : k \in Keycodes}

InitBus ==
    \E st \in Statuses, start_time \in 0..MaxParam, time_multi \in 1..(MaxParam + 1) :
        LET cfg == MainConfig(start_time, time_multi)
            m == create_window(configure_systems(cfg, NewManager(st)))
        IN  /\ config = cfg
            /\ systems = m.systems
            /\ calls = m.calls
            /\ listeners = m.s.listeners
            /\ queue = <<>>
            /\ view \in Views
            /\ gtime = 0
            /\ status = st
            /\ updated = <<>>
            /\ pc = "bus"
            /\ lag = 0
            /\ request_close = FALSE
            /\ since_prev = 0
            /\ stages = <<>>
            /\ elapsed = 0
            /\ rounds = 0
            /\ iter = NewIter
            /\ delivered = "none"
            /\ world = NewWorld
            /\ before = NoBefore

\* EventManager.throw, called from outside the processors
ThrowExternal ==
    /\ pc = "bus"
    /\ Len(queue) < MaxQueue
    /\ \E e \in ExternalEvents : SetShared(throw(Shared, e))
    /\ UNCHANGED <<pc, lag, request_close, since_prev, systems, config, calls,
                   stages, elapsed, rounds, iter, delivered, before>>

\* EventManager.process_events, one pass of its loop
Deliver ==
    /\ pc = "bus"
    /\ queue # <<>>
    /\ SetShared(process_event(Shared))
    /\ delivered' = IF Head(queue).kind = "ViewChanged"
                    THEN Head(queue).data ELSE delivered
    /\ UNCHANGED <<pc, lag, request_close, since_prev, systems, config, calls,
                   stages, elapsed, rounds, iter, before>>

NextBus ==
    \/ ThrowExternal
    \/ Deliver

SpecBus == InitBus /\ [][NextBus]_vars

\* the input processors among the systems
InputProcessors == {i \in 1..Len(systems) : systems[i].class \in InputClasses}

\* how often input processor i's key-press callback is registered
KeyRegistrations(i) ==
    Registrations(listeners, "KeyPressed", Callback(systems[i], "on_key_pressed"))

\* C8: each input processor's key-press callback is registered for the
\* key-pressed kind at most once.
C8_KeyCallbackAtMostOnce == \A i \in InputProcessors : KeyRegistrations(i) <= 1

\* the menu input processor listens, and the view has since changed to the
\* game view and back to the menu: both ViewChanged events are pending
C8_Witness ==
    /\ delivered = "main_menu"
    /\ \E i \in InputProcessors :
        systems[i].class = "MenuInputProcessor" /\ KeyRegistrations(i) = 1
    /\ Len(queue) >= 2
    /\ queue[1] = Event("ViewChanged", "game_view")
    /\ queue[2] = Event("ViewChanged", "main_menu")

\* C9: once a ViewChanged event has been delivered, an input processor's
\* key-press callback is registered exactly when the active view of the last
\* ViewChanged delivered is the view the processor is responsible for; the
\* two input processors never listen for key presses at the same time.
C9_ListensIffResponsible ==
    /\ delivered # "none" =>
        \A i \in InputProcessors :
            KeyRegistrations(i) >= 1 <=> is_responsible_for(systems[i], delivered)
    /\ \A i, j \in InputProcessors :
        (i # j /\ KeyRegistrations(i) >= 1) => KeyRegistrations(j) = 0

\* the game input processor listens after the view changed from the menu to
\* the game view, and a change back to the menu is pending
C9_Witness ==
    /\ delivered = "game_view"
    /\ \E i \in InputProcessors :
        systems[i].class = "GameInputProcessor" /\ KeyRegistrations(i) = 1
    /\ view = "main_menu"

----------------------------------------------------------------------------
\* engine.main, lines 33-40, step by step: the dispatcher is built from any
\* configuration, the window is created, and the systems are updated once

ConfigLists == UNION {[1..n -> ConfigEntries] : n \in 0..MaxSystems}

InitConfig ==
    /\ config \in ConfigLists
    /\ pc = "configure"
    /\ systems = <<>>
    /\ calls = <<>>
    /\ listeners = NoListeners
    /\ queue = <<>>
    /\ view = "none"
    /\ gtime = 0
    /\ status \in Statuses
    /\ updated = <<>>
    /\ lag = 0
    /\ request_close = FALSE
    /\ since_prev = 0
    /\ stages = <<>>
    /\ elapsed = 0
    /\ rounds = 0
    /\ iter = NewIter
    /\ delivered = "none"
    /\ world = NewWorld
    /\ before = NoBefore

\* SystemManager.configure, one pass of its loop
AddSystemByConfig ==
    /\ pc = "configure"
    /\ Len(systems) < Len(config)
    /\ SetManager(add_system_by_config(config[Len(systems) + 1], Manager))
    /\ UNCHANGED <<pc, lag, request_close, since_prev, config, stages, elapsed,
                   rounds, iter,
                   delivered, before>>

\* line 40: create_window, once the configuration is exhausted
CreateWindow ==
    /\ pc = "configure"
    /\ Len(systems) = Len(config)
    /\ SetManager(create_window(Manager))
    /\ pc' = "configured"
    /\ UNCHANGED <<lag, request_close, since_prev, config, stages, elapsed, rounds,
                   iter,
                   delivered, before>>

\* line 64, for the first time
FirstUpdate ==
    /\ pc = "configured"
    /\ SetShared(update_systems(systems, [Shared EXCEPT !.updated = <<>>],
                                SEC_PER_UPDATE))
    /\ pc' = "updated"
    /\ UNCHANGED <<lag, request_close, since_prev, systems, config, calls, stages,
                   elapsed, rounds, iter,
                   delivered, before>>

NextConfig ==
    \/ AddSystemByConfig
    \/ CreateWindow
    \/ FirstUpdate

SpecConfig == InitConfig /\ [][NextConfig]_vars

\* the hooks called on the system with the given id, in order
RECURSIVE HooksOf(_, _)
HooksOf(id, cs) ==
    IF cs = <<>> THEN <<>>
    ELSE IF Head(cs)[1] = id THEN <<Head(cs)[2]>> \o HooksOf(id, Tail(cs))
    ELSE HooksOf(id, Tail(cs))

\* C10: the systems are in the list in the order they were added, the last
\* hook called is always the register() of the system at the end of the list,
\* every system's register() has been called exactly once, after its
\* configure() when its configuration entry carries parameters, and a
\* dispatcher update calls no register() again.
C10_AddSystemRegistersOnce ==
    /\ Len(systems) <= Len(config) + 1
    /\ calls # <<>> => calls[Len(calls)] = <<Len(systems), "register">>
    /\ \A i \in 1..Len(systems) :
        /\ systems[i].id = i
        /\ i <= Len(config) =>
            /\ systems[i].class = config[i].impl
            /\ HooksOf(i, calls) = IF config[i].has_config
                                   THEN <<"configure", "register">>
                                   ELSE <<"register">>
        /\ i > Len(config) =>
            /\ systems[i].class = "ViewProcessor"
            /\ HooksOf(i, calls) = <<"register">>
        /\ systems[i].class \in InputClasses =>
            Registrations(listeners, "ViewChanged",
                          Callback(systems[i], "on_view_changed")) = 1

\* a configuration of MaxSystems entries, one with parameters, has been applied
\* and the systems have been updated
C10_Witness ==
    /\ pc = "updated"
    /\ Len(config) = MaxSystems
    /\ Len(systems) = MaxSystems + 1
    /\ \E i \in 1..Len(config) : config[i].has_config
    /\ \E i \in 1..Len(config) : ~config[i].has_config

----------------------------------------------------------------------------
\* One MovementSystem.update over a small world: entity 1 has an Input
\* component and any of the other components, entity 2 is an obstacle. The
\* MapChanged event that fills the spatial index is delivered first, or is
\* still pending when the update runs.

\* the largest pixel coordinates entity 1 starts at
MaxX == 4
MaxY == 2
\* the largest Movement.speed (sub-pixels per time unit) and the largest
\* delta_time (time units) of the update
MaxSpeed == 3
MaxDeltaTime == 3

\* the obstacle: one pixel wide and high
Obstacle == [x |-> 2, y |-> 1, w |-> 1, h |-> 1]

\* the collider of entity 1 at a position: one pixel wide and high
ColliderAt(pos) == set_position([x |-> 0, y |-> 0, w |-> 1, h |-> 1], pos)

Directions == [x : {0 - 1, 0, 1}, y : {0 - 1, 0, 1}]

\* the world of the movement scenario
MoveWorld(comps, pos, direction, speed) ==
    [NewWorld EXCEPT
        !.has = [e \in Entities |->
                    IF e = 1 THEN {"Input"} \cup comps
                    ELSE IF e = 2 THEN {"Position", "Colliding"} ELSE {}],
        !.dir[1] = direction,
        !.pos = [e \in Entities |->
                    IF e = 1 THEN pos
                    ELSE IF e = 2 THEN [x |-> Obstacle.x * SubPixel,
                                        y |-> Obstacle.y * SubPixel]
                    ELSE [x |-> 0, y |-> 0]],
        !.speed[1] = speed,
        !.rect = [e \in Entities |->
                    IF e = 1 /\ "Colliding" \in comps THEN ColliderAt(pos)
                    ELSE IF e = 2 THEN Obstacle ELSE NoRect]]

InitMove ==
    \E comps \in SUBSET {"Position", "Movement", "Colliding", "Sprite"},
       px \in 0..(MaxX * SubPixel + SubPixel - 1),
       py \in 0..(MaxY * SubPixel + SubPixel - 1),
       direction \in Directions, speed \in 1..MaxSpeed :
        LET m == add_system(NewSystem("MovementSystem", 1), NewManager("G_RUNNING"))
        IN  /\ world = MoveWorld(comps, [x |-> px, y |-> py], direction, speed)
            /\ systems = m.systems
            /\ calls = m.calls
            /\ listeners = m.s.listeners
            /\ queue = <<Event("MapChanged", "none")>>
            /\ config = <<>>
            /\ view = "none"
            /\ gtime = 0
            /\ status = "G_RUNNING"
            /\ updated = <<>>
            /\ pc = "move"
            /\ lag = 0
            /\ request_close = FALSE
            /\ since_prev = 0
            /\ stages = <<>>
            /\ elapsed = 0
            /\ rounds = 0
            /\ iter = NewIter
            /\ delivered = "none"
            /\ before = NoBefore

\* EventManager.process_events: the MapChanged event reaches the movement system
DeliverMapChanged ==
    /\ pc = "move"
    /\ queue # <<>>
    /\ SetShared(process_event(Shared))
    /\ UNCHANGED <<pc, lag, request_close, since_prev, systems, config, calls,
                   stages, elapsed, rounds, iter, delivered, before>>

\* SystemManager.update with some delta_time
MovementUpdate ==
    /\ pc = "move"
    /\ \E delta \in 1..MaxDeltaTime :
        /\ SetShared(update_systems(systems, [Shared EXCEPT !.updated = <<>>], delta))
        /\ before' = [op |-> "update", world |-> world, delta |-> delta]
    /\ pc' = "moved"
    /\ UNCHANGED <<lag, request_close, since_prev, systems, config, calls, stages,
                   elapsed, rounds, iter, delivered>>

NextMove ==
    \/ DeliverMapChanged
    \/ MovementUpdate

SpecMove == InitMove /\ [][NextMove]_vars

----------------------------------------------------------------------------
\* Claims about one movement update (SpecMove)

\* the update has run to its end
Moved == pc = "moved" /\ before.op = "update"

\* entity e is one the update applies a displacement to: it has Input and a
\* direction, and the components the loop body reads
Moving(w, e) ==
    /\ {"Input", "Position", "Movement", "Sprite"} \subseteq w.has[e]
    /\ w.dir[e] # [x |-> 0, y |-> 0]

\* the displacement of entity e in sub-pixels along each axis
DeltaOf(w, e, delta) ==
    [x |-> w.dir[e].x * w.speed[e] * delta, y |-> w.dir[e].y * w.speed[e] * delta]

\* the collider of e displaced by the outward-rounded delta overlaps o
PredictedOverlap(w, e, o, delta) ==
    LET d == DeltaOf(w, e, delta)
        r == w.rect[e]
        predicted == [r EXCEPT !.x = @ + RoundOutward(d.x), !.y = @ + RoundOutward(d.y)]
    IN  /\ "Colliding" \in w.has[e]
        /\ o \in w.index.members \ {e}
        /\ CollideRect(w.index.rect[o], predicted)

\* C12: when the collider of a moving entity E displaced by the outward-rounded
\* delta overlaps another entity O of the spatial index, the movement update
\* leaves E's position, E's collider rectangle and the spatial index unchanged
C12_CollisionRejectsDelta ==
    Moved =>
        \A e \in Entities :
            (/\ Moving(before.world, e)
             /\ \E o \in Entities : PredictedOverlap(before.world, e, o, before.delta))
            => /\ world.pos[e] = before.world.pos[e]
               /\ world.rect[e] = before.world.rect[e]
               /\ world.index = before.world.index

\* a moving entity whose predicted rectangle overlaps the obstacle, after the
\* update
C12_Witness ==
    /\ Moved
    /\ Moving(before.world, 1)
    /\ PredictedOverlap(before.world, 1, 2, before.delta)
    /\ ~CollideRect(before.world.rect[1], before.world.rect[2])
    /\ world.anim[1] = "walk"

\* the position of e after an unobstructed update: the prior position plus
\* direction x speed x delta_time, unrounded
ExactTarget(w, e, delta) ==
    [x |-> w.pos[e].x + DeltaOf(w, e, delta).x, y |-> w.pos[e].y + DeltaOf(w, e, delta).y]

\* C13: every entity with Input, Position and Movement whose direction is not
\* zero and whose predicted rectangle collides with nothing is, by one
\* movement update, at its prior position plus direction x speed x delta_time
C13_UnobstructedMoveExact ==
    Moved =>
        \A e \in Entities :
            (/\ {"Input", "Position", "Movement"} \subseteq before.world.has[e]
             /\ before.world.dir[e] # [x |-> 0, y |-> 0]
             /\ \A o \in Entities : ~PredictedOverlap(before.world, e, o, before.delta))
            => world.pos[e] = ExactTarget(before.world, e, before.delta)

\* the same for the entities that also have a Sprite
UnobstructedMoveExactWithSprite ==
    Moved =>
        \A e \in Entities :
            (/\ Moving(before.world, e)
             /\ \A o \in Entities : ~PredictedOverlap(before.world, e, o, before.delta))
            => world.pos[e] = ExactTarget(before.world, e, before.delta)

\* the smallest rectangle that holds both a and b: for a move along one axis,
\* the area the collider sweeps from a to b
Hull(a, b) ==
    LET x0 == IF a.x < b.x THEN a.x ELSE b.x
        y0 == IF a.y < b.y THEN a.y ELSE b.y
        x1 == IF a.x + a.w > b.x + b.w THEN a.x + a.w ELSE b.x + b.w
        y1 == IF a.y + a.h > b.y + b.h THEN a.y + a.h ELSE b.y + b.h
    IN  [x |-> x0, y |-> y0, w |-> x1 - x0, h |-> y1 - y0]

\* the collider of e where the unrounded displacement would put it
TargetRect(w, e, delta) ==
    LET p == ExactTarget(w, e, delta)
    IN  [(w.rect[e]) EXCEPT !.x = Truncate(p.x), !.y = Truncate(p.y)]

\* entity o of the index lies on the path of e: e moves along one axis, and o
\* overlaps the swept area but neither the start nor the end rectangle
OnPath(w, e, o, delta) ==
    /\ Moving(w, e)
    /\ "Colliding" \in w.has[e]
    /\ w.dir[e].x = 0 \/ w.dir[e].y = 0
    /\ o \in w.index.members \ {e}
    /\ CollideRect(w.index.rect[o], Hull(w.rect[e], TargetRect(w, e, delta)))
    /\ ~CollideRect(w.index.rect[o], w.rect[e])
    /\ ~CollideRect(w.index.rect[o], TargetRect(w, e, delta))

\* C14: a movement step never carries a collider from one side of an obstacle
\* to the other: when an obstacle lies on the path between the start and the
\* end rectangle, the displacement is rejected, whatever its size
C14_NoTunneling ==
    Moved =>
        \A e, o \in Entities :
            OnPath(before.world, e, o, before.delta)
                => world.pos[e] = before.world.pos[e]

\* C17: a movement update completes for every component assignment: no
\* exception ends it, an entity with Input that lacks Position, Movement or
\* Sprite is left as it was, and an entity without a collider is moved with
\* no collision check
C17_PartialEntitiesSkipped ==
    Moved =>
        /\ ~world.error
        /\ \A e \in Entities :
            /\ ("Input" \in before.world.has[e] /\ ~Moving(before.world, e)
                    /\ before.world.dir[e] # [x |-> 0, y |-> 0])
                => world.pos[e] = before.world.pos[e]
            /\ (Moving(before.world, e) /\ "Colliding" \notin before.world.has[e])
                => world.pos[e] = ExactTarget(before.world, e, before.delta)

----------------------------------------------------------------------------
\* The processors of the game on the event bus: events are raised from
\* outside (input, behaviours) and delivered one at a time to the world
\* initializer, the input processors, the map-change, movement, use-entity
\* and transition processors and the view processor.

\* the most events raised from outside in one behaviour
MaxThrows == 2

\* the number of deliveries up to which they are counted
MaxChain == 6

\* the systems of the configuration, in its order; the window adds the view
\* processor after them
WorldClasses == <<"WorldInitializer", "MenuInputProcessor", "GameInputProcessor",
                  "MapChangeProcessor", "MovementSystem", "UseEntityProcessor",
                  "TransitionProcessor">>

RECURSIVE add_systems(_, _)
\* SystemManager.configure for systems without a config section
add_systems(classes, m) ==
    IF classes = <<>> THEN m
    ELSE add_systems(Tail(classes),
                     add_system(NewSystem(Head(classes), Len(m.systems) + 1), m))

\* the collider of the actor: 16 x 16 pixels
ActorSize == 16
ActorCollider(pos) ==
    set_position([x |-> 0, y |-> 0, w |-> ActorSize, h |-> ActorSize], pos)

\* the pixel columns the actor starts at: on both sides of both edges of the
\* trigger rectangle of a useable at column 0
ActorColumns == {0 - 32, 0 - 31, 15, 16}

\* the use-events a useable is configured with
UseEvents == {"MapTransition", "WorldEnter"}

\* the kinds an entity other than the actor can be of: a thing with a
\* collider, or a useable with its use-event and transition target
Things ==
    {[useable |-> FALSE, useEvent |-> "None", transition |-> NoTransition]}
    \cup [useable : {TRUE}, useEvent : {"MapTransition"},
          transition : {[target_map |-> "dungeon", target_level |-> 1],
                        [target_map |-> "world", target_level |-> Unset]}]
    \cup [useable : {TRUE}, useEvent : UseEvents \ {"MapTransition"},
          transition : {[target_map |-> "dungeon", target_level |-> 1]}]

\* the world of the scenario: entity 1 is the player, at the given position
\* and itself useable or not; the other entities are things standing in row 0,
\* entity e at pixel column 8 * (e - 2)
GameWorld(pos, actor_useable, things, entered) ==
    [NewWorld EXCEPT
        !.has = [e \in Entities |->
                    IF e = PlayerEntity
                    THEN {"Input", "Position", "Movement", "Colliding", "Sprite"}
                         \cup (IF actor_useable THEN {"Useable"} ELSE {})
                    ELSE IF things[e].useable
                    THEN {"Position", "Useable", "MapTransition"}
                    ELSE {"Position", "Colliding"}],
        !.pos = [e \in Entities |->
                    IF e = PlayerEntity THEN pos
                    ELSE [x |-> 8 * (e - 2) * SubPixel, y |-> 0]],
        !.rect = [e \in Entities |->
                    IF e = PlayerEntity THEN ActorCollider(pos)
                    ELSE IF things[e].useable THEN NoRect
                    ELSE [x |-> 8 * (e - 2), y |-> 0, w |-> 1, h |-> 1]],
        !.useEvent = [e \in Entities |->
                    IF e = PlayerEntity
                    THEN (IF actor_useable THEN "WorldEnter" ELSE "None")
                    ELSE things[e].useEvent],
        !.transition = [e \in Entities |->
                    IF e = PlayerEntity THEN NoTransition ELSE things[e].transition],
        !.player = IF entered THEN PlayerEntity ELSE NoEntity,
        !.current_map = IF entered THEN <<"world", 0>> ELSE NoMap,
        !.maps = IF entered THEN {<<"world", 0>>} ELSE {}]

\* the history of the bus: the last operation; for a delivery the event and
\* the current map and queue length before it; the maps whose MapChanged
\* events are still queued, oldest first; for the delivery of a MapChanged
\* event the map whose request has raised it; the number of events raised
\* from outside
\* the number of deliveries so far, counted up to MaxChain
NoHistory ==
    [op |-> "none", event |-> Event("None", "none"), current_map |-> NoMap,
     qlen |-> 0, pending |-> <<>>, changed_for |-> NoMap, thrown |-> 0,
     deliveries |-> 0]

\* the events raised from outside the processors
WorldEvents(w) ==
    {Event("MenuOpen", "none"), Event("WorldEnter", "none"),
     Event("UseEntityAction", [user |-> PlayerEntity])}
    \cup {Event("KeyPressed", k) : k \in Keycodes}
    \cup {Event("MapTransition", [usedEntity |-> e]) :
            e \in {u \in Entities : "MapTransition" \in w.has[u]}}
    \cup {Event("MapChange", [name |-> n, level |-> l]) :
            n \in MapNames, l \in {Unset, MaxLevel}}

\* the bus after the window has shown its first view: the ViewChanged event
\* of that view has been delivered
ViewShown(s, view_name) ==
    process_event(throw([s EXCEPT !.view = view_name],
                        Event("ViewChanged", view_name)))

\* the processors set up and a world loaded, with an empty queue or with one
\* event raised from outside in it
WorldSetup(single) ==
    \E col \in ActorColumns, sub \in 0..(SubPixel - 1), actor_useable \in BOOLEAN,
       things \in [Entities \ {PlayerEntity} -> Things], entered \in BOOLEAN :
        LET m == create_window(add_systems(WorldClasses, NewManager("G_RUNNING")))
            s == ViewShown(m.s, IF entered THEN "game_view" ELSE "main_menu")
        IN  /\ world = GameWorld([x |-> col * SubPixel + sub, y |-> 0],
                                 actor_useable, things, entered)
            /\ systems = m.systems
            /\ calls = m.calls
            /\ listeners = s.listeners
            /\ queue \in IF single THEN {<<e>> : e \in WorldEvents(world)} ELSE {<<>>}
            /\ config = <<>>
            /\ view = s.view
            /\ gtime = 0
            /\ status = "G_RUNNING"
            /\ updated = <<>>
            /\ pc = "world"
            /\ lag = 0
            /\ request_close = FALSE
            /\ since_prev = 0
            /\ stages = <<>>
            /\ elapsed = 0
            /\ rounds = 0
            /\ iter = NewIter
            /\ delivered = "none"
            /\ before = [NoHistory EXCEPT !.thrown = IF single THEN 1 ELSE 0]

InitWorld == WorldSetup(FALSE)

\* the map a MapChange request asks for
RequestedMap(event) ==
    <<event.data.name, IF event.data.level = Unset THEN 0 ELSE event.data.level>>

\* EventManager.throw, called from outside the processors
ThrowWorld ==
    /\ pc = "world"
    /\ before.thrown < MaxThrows
    /\ \E e \in WorldEvents(world) : SetShared(throw(Shared, e))
    /\ before' = [before EXCEPT !.op = "throw", !.thrown = @ + 1]
    /\ UNCHANGED <<pc, lag, request_close, since_prev, systems, config, calls,
                   stages, elapsed, rounds, iter, delivered>>

\* EventManager.process_events, one pass of its loop
DeliverWorld ==
    /\ pc = "world"
    /\ queue # <<>>
    /\ ~world.error
    /\ SetShared(process_event(Shared))
    /\ before' = [before EXCEPT
            !.op = "deliver",
            !.event = Head(queue),
            !.current_map = world.current_map,
            !.qlen = Len(queue),
            !.pending = IF Head(queue).kind = "MapChange"
                        THEN Append(@, RequestedMap(Head(queue)))
                        ELSE IF Head(queue).kind = "MapChanged" THEN Tail(@)
                        ELSE @,
            !.changed_for = IF Head(queue).kind = "MapChanged"
                            THEN Head(before.pending) ELSE NoMap,
            !.deliveries = IF @ < MaxChain THEN @ + 1 ELSE @]
    /\ UNCHANGED <<pc, lag, request_close, since_prev, systems, config, calls,
                   stages, elapsed, rounds, iter, delivered>>

NextWorld ==
    \/ ThrowWorld
    \/ DeliverWorld

SpecWorld == InitWorld /\ [][NextWorld]_vars

\* One drain of the queue that holds a single event raised from outside:
\* process_events delivers until the queue is empty, and nothing else runs
InitDrain == WorldSetup(TRUE)

NextDrain == DeliverWorld

SpecDrain == InitDrain /\ [][NextDrain]_vars /\ WF_vars(DeliverWorld)

----------------------------------------------------------------------------
\* Claims about the processors on the bus (SpecWorld)

\* the last step delivered an event of the kind
Delivered(kind) == before.op = "deliver" /\ before.event.kind = kind

\* the events the last delivery has raised, in the order they were raised
Raised == SubSeq(queue, before.qlen, Len(queue))

\* the events of a kind in a sequence of events
OfKind(events, kind) == SelectSeq(events, LAMBDA e : e.kind = kind)

\* the absolute move action that puts an entity at the entry point of a map
MoveTo(entity, m) ==
    Event("MoveAction", [entity |-> entity, dx |-> EntryPoint(m).x,
                         dy |-> EntryPoint(m).y, absolute |-> 1])

\* C15: when a MapChange request for map N has been processed while a
\* current map M existed, the current map is N, N records M as its parent, M
\* lists N among its children, and an absolute move action for the player
\* with the coordinates of N's entry point has been raised
C15_MapChangeLinksAndMoves ==
    (Delivered("MapChange") /\ before.current_map # NoMap) =>
        LET N == RequestedMap(before.event)
            M == before.current_map
        IN  /\ world.current_map = N
            /\ world.parent[N] = M
            /\ N \in world.children[M]
            /\ OfKind(Raised, "MoveAction") = <<MoveTo(world.player, N)>>

\* the scenario of the spec: from the world map, level 0, to the dungeon,
\* level 1, with a player
C15_Witness ==
    /\ Delivered("MapChange")
    /\ before.current_map = <<"world", 0>>
    /\ before.event.data = [name |-> "dungeon", level |-> 1]
    /\ world.current_map = <<"dungeon", 1>>
    /\ world.player = PlayerEntity

\* the useables, other than the actor, whose trigger rectangle overlaps the
\* actor's collider
Overlapping(w, actor) ==
    {e \in Entities \ {actor} :
        /\ "Useable" \in w.has[e]
        /\ LET trigger == [x |-> Truncate(w.pos[e].x - TriggerReach * SubPixel),
                           y |-> Truncate(w.pos[e].y - TriggerReach * SubPixel)]
               c == w.rect[actor]
           IN  /\ trigger.x < c.x + c.w /\ c.x < trigger.x + TriggerSize
               /\ trigger.y < c.y + c.h /\ c.y < trigger.y + TriggerSize}

\* C16: a UseEntityAction raises exactly one event when a useable other than
\* the actor overlaps the actor's collider with its trigger rectangle: an
\* event of the use-event of an overlapping useable, carrying that useable;
\* and it raises no event when no useable overlaps
C16_UseRaisesTheUseEvent ==
    Delivered("UseEntityAction") =>
        LET found == Overlapping(world, before.event.data.user)
        IN  IF found = {} THEN Raised = <<>>
            ELSE /\ Len(Raised) = 1
                 /\ \E e \in found :
                        Raised[1] = Event(world.useEvent[e], [usedEntity |-> e])

\* a use with an overlapping useable by an actor that is itself useable
C16_Witness ==
    /\ Delivered("UseEntityAction")
    /\ Overlapping(world, PlayerEntity) # {}
    /\ "Useable" \in world.has[PlayerEntity]
    /\ Len(Raised) = 1

\* a use with nothing in reach
C16_WitnessNoOverlap ==
    /\ Delivered("UseEntityAction")
    /\ \E e \in Entities \ {PlayerEntity} : "Useable" \in world.has[e]
    /\ Overlapping(world, PlayerEntity) = {}
    /\ Raised = <<>>

\* what the processing of a MapChange request raises and sets: the move
\* action before the MapChanged event, one MapChanged event, and the current
\* map set to the new map when the request has been processed
MapChangeRaises ==
    Delivered("MapChange") =>
        /\ SelectSeq(Raised, LAMBDA e : e.kind \in {"MoveAction", "MapChanged"})
            = <<MoveTo(world.player, RequestedMap(before.event)),
                Event("MapChanged", "none")>>
        /\ world.current_map = RequestedMap(before.event)

\* C19 as claimed: for every processed MapChange request the move action is
\* raised before the MapChanged event, exactly one MapChanged event is
\* raised, after the current map has been set, and every listener of that
\* MapChanged event runs with the current map equal to the request's new map
C19_ClaimedListenersSeeNewMap ==
    /\ MapChangeRaises
    /\ Delivered("MapChanged") => world.current_map = before.changed_for

\* C19: for every processed MapChange request the move action is raised
\* before the MapChanged event, exactly one MapChanged event is raised, after
\* the current map has been set, and every listener of a MapChanged event
\* runs with the current map equal to the new map of the request processed
\* last: its own request, or a later one processed while the event was queued
C19_ListenersSeeLatestMap ==
    /\ MapChangeRaises
    /\ Delivered("MapChanged") =>
        LET requests == <<before.changed_for>> \o before.pending
        IN  world.current_map = requests[Len(requests)]

\* a MapChanged event delivered after a second request has been processed
C19_Witness ==
    /\ Delivered("MapChanged")
    /\ before.pending # <<>>
    /\ world.current_map # before.changed_for
    /\ world.index.members # {}

\* C18: every drain that starts with one event raised from outside (MenuOpen,
\* WorldEnter, KeyPressed, UseEntityAction, MapTransition, MapChange) comes
\* to an empty queue: the listeners raise only a finite chain of events
C18_DrainTerminates == <>[](queue = <<>>)

\* the queue is empty after a chain of deliveries that went from a use of an
\* entity through its transition and the map change to the MapChanged event
C18_Witness ==
    /\ queue = <<>>
    /\ before.deliveries >= 5
    /\ Delivered("MapChanged")
    /\ before.thrown = 1

----------------------------------------------------------------------------
\* Claims about the queue at the Rendering pass (Spec)

\* C20: whenever a Rendering pass starts the queue is empty: every event
\* raised so far, the MenuOpen event of the startup included, has been
\* delivered to its listeners
C20_QueueEmptyAtRender == pc = "render" => queue = <<>>

\* the same for the Rendering passes that follow at least one Stepping round
QueueEmptyAtRenderAfterRound == (pc = "render" /\ rounds >= 1) => queue = <<>>

----------------------------------------------------------------------------
\* Claims about the links between the maps (SpecWorld)

RECURSIVE AncestorWithin(_, _, _, _)
\* map a is reached from map m by following at least one and at most k
\* parent links
AncestorWithin(w, m, a, k) ==
    /\ k > 0
    /\ w.parent[m] # NoMap
    /\ \/ w.parent[m] = a
       \/ AncestorWithin(w, w.parent[m], a, k - 1)

\* C21: after any sequence of MapChange requests, a return to a visited map
\* and a request for the current map included, the parent links hold no
\* cycle: no map is its own parent or its own ancestor
C21_ParentLinksAcyclic ==
    \A m \in Maps : ~AncestorWithin(world, m, m, Cardinality(Maps))

\* the same for the return to a visited map alone: no two different maps
\* are each the parent of the other
NoReturnCycle ==
    \A m, n \in Maps : (m # n /\ world.parent[m] = n) => world.parent[n] # m

====
